---- MODULE Spec2Model ----
(***************************************************************************)
(* A model of the finite-group toolkit of algebra/: Set, Function, Element *)
(* and Group (group.py), with the archetype constructors Zn and Sn.        *)
(*                                                                         *)
(* A Python frozenset iterates in an order fixed per object by the hashes  *)
(* and the insertion history of its members.  The model gives every Set    *)
(* the code iterates over an explicit order: a sequence without repeats,   *)
(* chosen nondeterministically when the Set is built.                      *)
(*                                                                         *)
(* An Element is modelled by its raw value: Element.__eq__ and __hash__    *)
(* read nothing but the value.  Python's 0-based list indices are 1-based  *)
(* here.                                                                   *)
(***************************************************************************)
EXTENDS Integers, Sequences, FiniteSets, TLC

\* Longest display_order list handed to Group(...).
MaxDisplayLen == 3
\* Largest n of Zn(n).
MaxZn == 9
\* Largest n of Sn(n).
MaxSn == 3
\* Sets of at most this many members are iterated in every possible order.
MaxPermSize == 4
\* Most different values in a list of seeds handed to generate.
MaxSeeds == 2
\* Largest n of the Zn(n) and Sn(n) taken as the other operand of a call.
MaxOther == 3
\* Largest |k| of the exponents k of a**k, a*k and k*a.
MaxExponent == 5
\* Most elements of a Set whose every table is handed to Group(...) in ElementSpec.
MaxTable == 2
\* Largest raw value of the domains and codomains of FunctionSpec.
MaxValue == 1
\* Largest raw value of the Sets of SetSpec.
MaxMember == 2
\* Largest |n| of the exponents n of A**n.
MaxPower == 3
\* Largest n of the Zn(n) whose loops are followed step by step.
MaxLoopZn == 4
\* Most iterations of a fixed-point loop that are followed.
MaxIterations == 12
\* Largest n of Dn(n).
MaxDn == 11
\* group.py:444: Sn refuses n above 7.
SnRefused == 7

\* The raw values of the Sets and Functions built by hand
Carrier == {0, 1, 2}

VARIABLES
    func,   \* the Function object built last (the bin_op handed to Group)
    G,      \* the Group object built last
    ctor,   \* the constructor call made last, with the arguments it read
    call,   \* the method call made last on G, with its arguments
    ret,    \* what the method call returned
    err     \* the exception the last call raised, NoError if it returned

vars == <<func, G, ctor, call, ret, err>>

-----------------------------------------------------------------------------
\* Generic helpers

Range(s) == {s[i] : i \in DOMAIN s}

RECURSIVE Perms(_)
Perms(S) ==
    IF S = {} THEN {<<>>}
    ELSE UNION {{<<x>> \o p : p \in Perms(S \ {x})} : x \in S}

RECURSIVE SetToSeq(_)
SetToSeq(S) ==
    IF S = {} THEN <<>>
    ELSE LET x == CHOOSE y \in S : TRUE IN <<x>> \o SetToSeq(S \ {x})

Reverse(s) == [i \in 1 .. Len(s) |-> s[Len(s) + 1 - i]]

\* The iteration orders a frozenset with members S can have.
Orders(S) ==
    IF Cardinality(S) <= MaxPermSize THEN Perms(S)
    ELSE {SetToSeq(S), Reverse(SetToSeq(S))}

\* list.index: the first position holding v
Index(s, v) == CHOOSE i \in DOMAIN s : s[i] = v /\ \A j \in 1 .. (i - 1) : s[j] # v

SeqsUpTo(S, n) == UNION {[1 .. k -> S] : k \in 0 .. n}

NoError == [exc |-> "none", msg |-> "none"]
Raise(exc, msg) == [exc |-> exc, msg |-> msg]

-----------------------------------------------------------------------------
\* set.py

\* Set.__mul__
Product(A, B) == {<<x, y>> : x \in A, y \in B}

\* Set.__pow__ with exponent 2
Power2(A) == Product(A, A)

\* What a Set method returns or raises
SetReturned(value) == [err |-> NoError, value |-> value]
SetRaised(e) == [err |-> e, value |-> {}]

\* Set.__mul__(self, other_set); an operand that is no Set is given by its
\* members
SetMul(self, other_is_set, other_set) ==
    IF ~other_is_set THEN SetRaised(Raise("TypeError", "not a Set"))
    ELSE SetReturned(Product(self, other_set))

\* The loop of set.py:48-50: i more products of set_prod with self
RECURSIVE SetPowLoop(_, _, _)
SetPowLoop(self, set_prod, i) ==
    IF i <= 0 THEN set_prod
    ELSE SetPowLoop(self, Product(set_prod, self), i - 1)

\* Set.__pow__ that refuses the exponents below 0 only
SetPowFromZero(self, is_int, exponent) ==
    IF ~is_int THEN SetRaised(Raise("TypeError", "must be an integer"))
    ELSE IF exponent < 0 THEN SetRaised(Raise("ValueError", "must be at least 1"))
    ELSE SetReturned(SetPowLoop(self, self, exponent - 1))

\* Set.__pow__(self, exponent); an exponent that is no int is flagged
SetPow(self, is_int, exponent) ==
    IF ~is_int THEN SetRaised(Raise("TypeError", "must be an integer"))
    ELSE IF exponent < 1 THEN SetRaised(Raise("ValueError", "must be at least 1"))
    ELSE SetReturned(SetPowLoop(self, self, exponent - 1))

\* utils.combos(iterable, n): itertools.combinations_with_replacement yields
\* the tuples whose positions in the iterable do not decrease.
Combos2(s) ==
    {<<s[p[1]], s[p[2]]>> : p \in {q \in (DOMAIN s) \X (DOMAIN s) : q[1] <= q[2]}}

Combos3(s) ==
    {<<s[p[1]], s[p[2]], s[p[3]]>> :
        p \in {q \in (DOMAIN s) \X (DOMAIN s) \X (DOMAIN s) : q[1] <= q[2] /\ q[2] <= q[3]}}

-----------------------------------------------------------------------------
\* function.py

\* Function.__init__: the object's fields
Function(domain, codomain, function) ==
    [domain |-> domain, codomain |-> codomain, function |-> function]

\* Function.__init__ without the check of function.py:41
FunctionInitUnchecked(domain, codomain, function) == NoError

\* Function.__init__: the exception it raises, if any
FunctionInitError(domain, codomain, function) ==
    IF \E x \in domain : function[x] \notin codomain
    THEN Raise("ValueError", "outside codomain")
    ELSE NoError

\* Function.__call__ on a value of the domain
Apply(f, x) == f.function[x]

\* Function.__call__(*elem): arguments that are not one are packed into one
\* tuple (function.py:57); here elem is the value after that step.  The result
\* is the exception raised and the value returned.
Call(f, elem) ==
    IF elem \notin f.domain
    THEN [err |-> Raise("ValueError", "not in domain"), value |-> elem]
    ELSE [err |-> NoError, value |-> f.function[elem]]

NoFunction == Function({}, {}, <<>>)

\* Function.__init__ without the isinstance test of function.py:27
FunctionNewAnyDomain(domain_is_set, codomain_is_set, domain, codomain, function) ==
    IF ~codomain_is_set THEN Raise("TypeError", "codomain")
    ELSE FunctionInitError(domain, codomain, function)

\* Function.__init__(domain, codomain, function) with the isinstance tests of
\* function.py:27-32; an argument that is no Set is given by its members
FunctionNew(domain_is_set, codomain_is_set, domain, codomain, function) ==
    IF ~domain_is_set THEN Raise("TypeError", "domain")
    ELSE IF ~codomain_is_set THEN Raise("TypeError", "codomain")
    ELSE FunctionInitError(domain, codomain, function)

\* function.py:57: the value a call tests against the domain.  The caller
\* hands over either the one argument args, a tuple (f(args)), or the
\* members of args as positional arguments (f(*args)), and positional
\* arguments that are not exactly one are packed into one tuple.
Pack(args, as_tuple) ==
    IF ~as_tuple /\ Len(args) = 1 THEN args[1] ELSE args

\* Function.__call__(*elem) for a Function whose domain holds raw values
\* (arity 1) or pairs of them (arity 2): a tuple is no member of a Set of raw
\* values and a raw value no member of a Set of pairs
CallPacked(f, arity, args, as_tuple) ==
    LET is_value == ~as_tuple /\ Len(args) = 1 IN
    IF is_value # (arity = 1)
    THEN [err |-> Raise("ValueError", "not in domain"), value |-> 0]
    ELSE LET c == Call(f, Pack(args, as_tuple)) IN
         [err |-> c.err, value |-> IF c.err = NoError THEN c.value ELSE 0]

\* hash(Set) of a Set of raw values: a number its members determine
RECURSIVE SetHash(_)
SetHash(S) ==
    IF S = {} THEN 0
    ELSE LET x == CHOOSE y \in S : TRUE IN 2 ^ x + SetHash(S \ {x})

\* Function.__hash__
FunctionHash(f) == SetHash(f.domain) + 2 * SetHash(f.codomain)

\* function.py:98-101 without the comparison of the codomains
FunctionEqIgnoringCodomain(self, other_func, is_function, same_object) ==
    IF ~is_function THEN FALSE
    ELSE \/ same_object
         \/ /\ self.domain = other_func.domain
            /\ \A elem \in self.domain :
                  Call(self, elem).value = Call(other_func, elem).value

\* Function.__eq__(self, other_func); same_object is id(self) == id(other_func)
FunctionEq(self, other_func, is_function, same_object) ==
    IF ~is_function THEN FALSE
    ELSE \/ same_object
         \/ /\ self.domain = other_func.domain
            /\ self.codomain = other_func.codomain
            /\ \A elem \in self.domain :
                  Call(self, elem).value = Call(other_func, elem).value

\* Function._image and Function.image
FunctionImage(f) == {Call(f, elem).value : elem \in f.domain}

\* Function.is_surjective
FunctionIsSurjective(f) == FunctionImage(f) = f.codomain

\* function.py:151 comparing the domain with the codomain
FunctionIsInjectiveByCodomain(f) ==
    Cardinality(f.domain) = Cardinality(f.codomain)

\* Function.is_injective
FunctionIsInjective(f) ==
    Cardinality(f.domain) = Cardinality(FunctionImage(f))

\* Function.is_bijective
FunctionIsBijective(f) == FunctionIsSurjective(f) /\ FunctionIsInjective(f)

\* function.py:169 comparing inner_func.domain
FunctionComposeOnDomains(self, inner_func, is_function) ==
    IF ~is_function
    THEN [err |-> Raise("TypeError", "inner function"), function |-> NoFunction]
    ELSE IF self.domain # inner_func.domain
    THEN [err |-> Raise("ValueError", "codomain of inner"), function |-> NoFunction]
    ELSE LET body == [x \in inner_func.domain |->
                         Call(self, Call(inner_func, x).value).value]
             e == FunctionInitError(inner_func.domain, self.codomain, body)
         IN [err |-> e,
             function |-> IF e = NoError
                          THEN Function(inner_func.domain, self.codomain, body)
                          ELSE NoFunction]

\* Function.compose(self, inner_func): the exception raised and the Function
\* returned.  The mapping of the result is x -> self(inner_func(x)), and
\* Function.__init__ evaluates it on the domain of inner_func; a call in it
\* that raises ends the construction with that ValueError.
FunctionCompose(self, inner_func, is_function) ==
    IF ~is_function
    THEN [err |-> Raise("TypeError", "inner function"), function |-> NoFunction]
    ELSE IF self.domain # inner_func.codomain
    THEN [err |-> Raise("ValueError", "codomain of inner"), function |-> NoFunction]
    ELSE LET inner == [x \in inner_func.domain |-> Call(inner_func, x)]
             outer == [x \in inner_func.domain |-> Call(self, inner[x].value)]
             raising == {x \in inner_func.domain :
                            inner[x].err # NoError \/ outer[x].err # NoError}
             body == [x \in inner_func.domain |-> outer[x].value]
             e == FunctionInitError(inner_func.domain, self.codomain, body)
         IN IF raising # {}
            THEN [err |-> Raise("ValueError", "not in domain"), function |-> NoFunction]
            ELSE [err |-> e,
                  function |-> IF e = NoError
                               THEN Function(inner_func.domain, self.codomain, body)
                               ELSE NoFunction]

-----------------------------------------------------------------------------
\* element.py and group.py: Group.__init__

\* Element.__mul__ of two Elements of one group, as raw values
Mul(bin_op, a, b) == Apply(bin_op, <<a, b>>)

\* group.py:41
DomainOk(elements, bin_op) == Power2(elements) \subseteq bin_op.domain

\* group.py:45
ClosureOk(elements, bin_op) ==
    {Apply(bin_op, p) : p \in Power2(elements)} \subseteq elements

\* group.py:49 testing e * a == a only
IdentitiesLeftOnly(set, bin_op) ==
    SelectSeq(set, LAMBDA e : \A a \in Range(set) : Mul(bin_op, e, a) = a)

\* group.py:49, the list of identities in the order of self.set
Identities(set, bin_op) ==
    SelectSeq(set, LAMBDA e : \A a \in Range(set) :
                                 Mul(bin_op, e, a) = a /\ Mul(bin_op, a, e) = a)

\* group.py:59
AssociativityOk(set, bin_op) ==
    \A t \in Combos3(set) :
        Mul(bin_op, t[1], Mul(bin_op, t[2], t[3])) = Mul(bin_op, Mul(bin_op, t[1], t[2]), t[3])

\* group.py:63 testing b * a == e
InversesOnTheLeft(set, bin_op, e) ==
    {a \in Range(set) : \E b \in Range(set) : Mul(bin_op, b, a) = e}

\* group.py:63
Inverses(set, bin_op, e) ==
    {a \in Range(set) : \E b \in Range(set) : Mul(bin_op, a, b) = e}

\* group.py:68
Abelian(set, bin_op) ==
    \A t \in Combos2(set) : Mul(bin_op, t[1], t[2]) = Mul(bin_op, t[2], t[1])

\* group.py:78
DisplayIndices(set, display_order) ==
    [k \in DOMAIN display_order |-> Index(set, display_order[k])]

NoGroup == [exists |-> FALSE]

\* Group.__init__(elements, bin_op, display_order, skip_checks), where set is the
\* order in which self.set iterates and has_display says display_order is not
\* None.  The result is the exception raised and the object built.
GroupInit(elements, bin_op, has_display, display_order, skip_checks, set) ==
    LET identities == Identities(set, bin_op) IN
    IF ~DomainOk(elements, bin_op)
    THEN [err |-> Raise("ValueError", "domain"), group |-> NoGroup]
    ELSE IF ~ClosureOk(elements, bin_op)
    THEN [err |-> Raise("ValueError", "closure"), group |-> NoGroup]
    ELSE IF Len(identities) = 0
    THEN [err |-> Raise("ValueError", "no identity"), group |-> NoGroup]
    ELSE IF Len(identities) > 1
    THEN [err |-> Raise("RuntimeError", "multiple identities"), group |-> NoGroup]
    ELSE IF ~skip_checks /\ ~AssociativityOk(set, bin_op)
    THEN [err |-> Raise("ValueError", "not associative"), group |-> NoGroup]
    ELSE IF Cardinality(Inverses(set, bin_op, identities[1])) # Cardinality(elements)
    THEN [err |-> Raise("ValueError", "missing inverses"), group |-> NoGroup]
    ELSE IF has_display /\ Range(display_order) # elements
    THEN [err |-> Raise("ValueError", "display order"), group |-> NoGroup]
    ELSE [err |-> NoError,
          group |-> [exists |-> TRUE,
                     elements |-> elements,
                     bin_op |-> bin_op,
                     set |-> set,
                     e |-> identities[1],
                     abelian |-> Abelian(set, bin_op),
                     has_display |-> has_display,
                     display_order |-> IF has_display
                                       THEN DisplayIndices(set, display_order)
                                       ELSE <<>>]]

\* Group.__init__ with the isinstance tests of group.py:22-27 before the
\* other checks; an argument of another type is given by a flag
GroupNew(elements_is_set, bin_op_is_function, elements, bin_op, has_display, display_order, skip_checks, set) ==
    IF ~elements_is_set
    THEN [err |-> Raise("TypeError", "elements"), group |-> NoGroup]
    ELSE IF ~bin_op_is_function
    THEN [err |-> Raise("TypeError", "bin_op"), group |-> NoGroup]
    ELSE GroupInit(elements, bin_op, has_display, display_order, skip_checks, set)

\* The checks of Group.__init__ that come before display_order is read.
EarlyError(elements, bin_op, skip_checks, set) ==
    GroupInit(elements, bin_op, FALSE, <<>>, skip_checks, set).err

-----------------------------------------------------------------------------
\* group.py: the methods of Group

\* Group.__iter__, as the list of the raw values of the Elements it yields
GroupIter(g) ==
    IF g.has_display
    THEN [k \in DOMAIN g.display_order |-> g.set[g.display_order[k]]]
    ELSE <<g.e>> \o SelectSeq(g.set, LAMBDA a : a # g.e)

\* group.py:208-210 testing a * element == e
InvertScanOnTheLeft(g, v) ==
    LET it == GroupIter(g)
        hits == {k \in DOMAIN it : Mul(g.bin_op, it[k], v) = g.e}
    IN IF hits = {}
       THEN [err |-> Raise("RuntimeError", "no inverse"), value |-> v]
       ELSE [err |-> NoError,
             value |-> it[CHOOSE k \in hits : \A j \in hits : k <= j]]

\* Group.invert(element), element an Element of value v.  The scan of
\* group.py:208-210 returns the first a of the iteration with element * a == e.
InvertScan(g, v) ==
    LET it == GroupIter(g)
        hits == {k \in DOMAIN it : Mul(g.bin_op, v, it[k]) = g.e}
    IN IF hits = {}
       THEN [err |-> Raise("RuntimeError", "no inverse"), value |-> v]
       ELSE [err |-> NoError,
             value |-> it[CHOOSE k \in hits : \A j \in hits : k <= j]]

GroupInvert(g, v) ==
    IF v \notin g.elements
    THEN [err |-> Raise("ValueError", "not in group"), value |-> v]
    ELSE InvertScan(g, v)

\* a ^ b of two ints that are not negative
RECURSIVE Xor(_, _)
Xor(a, b) ==
    IF a = 0 THEN b
    ELSE IF b = 0 THEN a
    ELSE 2 * Xor(a \div 2, b \div 2) + (((a % 2) + (b % 2)) % 2)

\* hash(Set) of a Set of pairs of raw values: a number its members determine,
\* whatever the order they are visited in
RECURSIVE PairSetHash(_)
PairSetHash(S) ==
    IF S = {} THEN 0
    ELSE LET x == CHOOSE y \in S : TRUE IN
         (31 * x[1] + x[2] + 1 + PairSetHash(S \ {x})) % 65536

\* Group.__hash__: Function.__hash__ of the bin_op (function.py:84) and the
\* hash of the Set of Elements, an Element having the hash of its raw value
\* (element.py:58)
GroupHash(g) ==
    Xor(PairSetHash(g.bin_op.domain) + 2 * SetHash(g.bin_op.codomain),
        SetHash(g.elements))

\* Group.__eq__ comparing the Sets of Elements in their iteration order
GroupEqualsInOrder(self, other_group, is_group, same_object) ==
    IF ~is_group THEN FALSE
    ELSE \/ same_object
         \/ /\ FunctionEq(self.bin_op, other_group.bin_op, TRUE, FALSE)
            /\ self.set = other_group.set

\* Group.__eq__(self, other_group); same_object is id(self) == id(other_group).
\* Equality of Function objects does not depend on their being one object.
GroupEquals(self, other_group, is_group, same_object) ==
    IF ~is_group THEN FALSE
    ELSE \/ same_object
         \/ /\ FunctionEq(self.bin_op, other_group.bin_op, TRUE, FALSE)
            /\ Range(self.set) = Range(other_group.set)

\* Group.__contains__(item): item in self.set.  The lookup in the frozenset
\* compares item, by Element.__eq__, with the members of the hash of item, and
\* Element.__eq__ raises TypeError when the other operand is no Element
\* (element.py:46-47); an Element has the hash of its raw value and an int is
\* its own hash.
GroupContains(g, item) ==
    IF item.kind = "Element"
    THEN [err |-> NoError, value |-> item.value \in g.elements]
    ELSE IF \E m \in g.elements : m = item.hash
    THEN [err |-> Raise("TypeError", "must be an Element"), value |-> FALSE]
    ELSE [err |-> NoError, value |-> FALSE]

\* The products of group.py:258 for one iteration order of old_set
ComboProducts(bin_op, order) ==
    {Mul(bin_op, t[1], t[2]) : t \in Combos2(order)}

\* One iteration of the loop of Group.generate that leaves old_set as it is
GenerateBodyKeepOld(bin_op, old_set, new_set, order) ==
    [old_set |-> old_set,
     new_set |-> old_set \cup ComboProducts(bin_op, order)]

\* One iteration of the loop of Group.generate (group.py:257-258), order being
\* the order in which utils.combos reads the new old_set
GenerateBody(bin_op, old_set, new_set, order) ==
    [old_set |-> old_set \cup new_set,
     new_set |-> (old_set \cup new_set) \cup ComboProducts(bin_op, order)]

\* The loop of Group.generate (group.py:255-258): the values new_set can have
\* when the loop exits, over the iteration orders of its Sets.
RECURSIVE GenerateLoop(_, _, _)
GenerateLoop(bin_op, old_set, new_set) ==
    IF old_set = new_set THEN {new_set}
    ELSE LET old == old_set \cup new_set
             nexts == {old \cup ComboProducts(bin_op, order) : order \in Orders(old)}
         IN UNION {GenerateLoop(bin_op, old, n) : n \in nexts}

\* Group.generate(elements): its possible outcomes, each the exception raised
\* and the Group returned.
GroupGenerate(g, elements) ==
    IF elements = {}
    THEN {[err |-> Raise("ValueError", "empty"), group |-> NoGroup]}
    ELSE IF ~(elements \subseteq g.elements)
    THEN {[err |-> Raise("ValueError", "not in group"), group |-> NoGroup]}
    ELSE UNION {{GroupInit(final, g.bin_op, FALSE, <<>>, FALSE, set) :
                     set \in Orders(final)} :
                  final \in GenerateLoop(g.bin_op, elements, {})}

\* What a Set of Groups keeps of an outcome of generate: Group.__eq__ and
\* __hash__ read bin_op and set only, and every Group generate returns has the
\* bin_op of g, so its Set of raw values stands for the Group.
GenerateSets(g, elements) ==
    {IF r.err = NoError
     THEN [err |-> NoError, elements |-> r.group.elements]
     ELSE [err |-> r.err, elements |-> {}] : r \in GroupGenerate(g, elements)}

\* The generate calls of one round of group.py:276-279, one per pair <<H, x>> of
\* a known subgroup H and an element x outside of it: the exception the first
\* failing call raises, or the Groups returned.
RECURSIVE GenerateAll(_, _)
GenerateAll(g, pairs) ==
    IF pairs = {} THEN {[err |-> NoError, groups |-> {}]}
    ELSE LET c == CHOOSE p \in pairs : TRUE
             first == GenerateSets(g, c[1] \cup {c[2]})
             rest == GenerateAll(g, pairs \ {c})
         IN {IF o.err # NoError THEN [err |-> o.err, groups |-> {}]
             ELSE IF r.err # NoError THEN r
             ELSE [err |-> NoError, groups |-> r.groups \cup {o.elements}] :
                o \in first, r \in rest}

\* The loop of Group.subgroups (group.py:274-279)
RECURSIVE SubgroupsLoop(_, _, _)
SubgroupsLoop(g, old_set, new_set) ==
    IF old_set = new_set THEN {[err |-> NoError, groups |-> new_set]}
    ELSE LET old == old_set \cup new_set
             pairs == UNION {{<<H, x>> : x \in g.elements \ H} : H \in old}
         IN UNION {IF o.err # NoError THEN {o}
                   ELSE SubgroupsLoop(g, old, old \cup o.groups) :
                      o \in GenerateAll(g, pairs)}

\* Group.subgroups(): its possible outcomes
GroupSubgroups(g) ==
    UNION {IF t.err # NoError THEN {[err |-> t.err, groups |-> {}]}
           ELSE SubgroupsLoop(g, {t.elements}, {}) :
              t \in GenerateSets(g, {g.e})}

-----------------------------------------------------------------------------
\* element.py

\* Element(elem, group): the object's fields
Element(elem, group) == [elem |-> elem, group |-> group]

\* What an operator of Element hands back: the exception raised, the Element
\* returned and the number of warnings printed.
Returned(element, warnings) ==
    [err |-> NoError, elem |-> element.elem, group |-> element.group,
     warnings |-> warnings]
Raised(e, warnings) ==
    [err |-> e, elem |-> 0, group |-> NoGroup, warnings |-> warnings]

\* Element(bin_op(x, y), group): Function.__call__ on the pair, then
\* Element.__init__ (element.py:27), either of which may raise ValueError
Product2(group, x, y) ==
    LET c == Call(group.bin_op, <<x, y>>) IN
    IF c.err # NoError THEN Raised(c.err, 0)
    ELSE IF c.value \notin group.elements
    THEN Raised(Raise("ValueError", "not in group"), 0)
    ELSE Returned(Element(c.value, group), 0)

\* Element.__rmul__(self, elem), elem an Element: elem * self by the bin_op
\* of self.group (element.py:147)
ElementRMul(self, elem) == Product2(self.group, elem.elem, self.elem)

\* element.py:115-116 without the except clause
ElementMulNoFallback(self, elem) == Product2(self.group, self.elem, elem.elem)

\* Element.__mul__(self, elem), elem an Element (element.py:115-123): the
\* product by the bin_op of self.group; on a ValueError a warning is printed
\* and elem.__rmul__(self) is returned.
ElementMul(self, elem) ==
    LET first == Product2(self.group, self.elem, elem.elem) IN
    IF first.err = NoError THEN first
    ELSE [ElementRMul(elem, self) EXCEPT !.warnings = 1]

\* Element.__pow__(self, exponent), exponent an integer (element.py:81-91)
RECURSIVE ElementPow(_, _)
ElementPow(self, exponent) ==
    IF exponent = 0
    THEN Returned(Element(self.group.e, self.group), 0)
    ELSE IF exponent < 0
    THEN LET inverse == GroupInvert(self.group, self.elem) IN
         IF inverse.err # NoError THEN Raised(inverse.err, 0)
         ELSE ElementPow(Element(inverse.value, self.group), -exponent)
    ELSE IF exponent % 2 = 1
    THEN LET rest == ElementPow(self, exponent - 1) IN
         IF rest.err # NoError THEN rest
         ELSE LET r == ElementMul(self, Element(rest.elem, rest.group)) IN
              [r EXCEPT !.warnings = @ + rest.warnings]
    ELSE LET square == ElementMul(self, self) IN
         IF square.err # NoError THEN square
         ELSE LET r == ElementPow(Element(square.elem, square.group),
                                  exponent \div 2) IN
              [r EXCEPT !.warnings = @ + square.warnings]

\* Element.__mul__(self, k) and Element.__rmul__(self, k), k an integer
\* (element.py:104-109, 136-141): a * k and k * a
ElementMulInt(self, k) ==
    IF self.group.abelian THEN ElementPow(self, k)
    ELSE Raised(Raise("ValueError", "self-multiply"), 0)

\* element.py:154 reading the flag of self.group only
ElementAddSelfOnly(self, elem) ==
    IF self.group.abelian THEN ElementMul(self, elem)
    ELSE Raised(Raise("ValueError", "both Abelian"), 0)

\* Element.__add__(self, elem), elem an Element
ElementAdd(self, elem) ==
    IF self.group.abelian /\ elem.group.abelian THEN ElementMul(self, elem)
    ELSE Raised(Raise("ValueError", "both Abelian"), 0)

\* Element.__neg__(self)
ElementNeg(self) ==
    IF self.group.abelian THEN ElementPow(self, -1)
    ELSE Raised(Raise("ValueError", "Abelian"), 0)

\* Element.__sub__(self, elem), elem an Element
ElementSub(self, elem) ==
    IF self.group.abelian /\ elem.group.abelian
    THEN LET inverse == ElementPow(elem, -1) IN
         IF inverse.err # NoError THEN inverse
         ELSE LET r == ElementMul(self, Element(inverse.elem, inverse.group)) IN
              [r EXCEPT !.warnings = @ + inverse.warnings]
    ELSE Raised(Raise("ValueError", "both Abelian"), 0)

-----------------------------------------------------------------------------
\* group.py: __lt__, is_cyclic; Group.py: find_isomorphism

\* What the all(...) of group.py:230 can come to.  It visits the pairs of
\* self.set**2 in the order that Set iterates in and stops at the first pair
\* whose products differ or whose evaluation raises.
LtScan(self, other) ==
    LET pairs == Power2(Range(self.set))
        products == [p \in pairs |->
                        ElementMul(Element(p[1], self), Element(p[2], self))]
        others == [p \in pairs |-> Call(other.bin_op, p)]
        raising == {p \in pairs : products[p].err # NoError \/ others[p].err # NoError}
        differing == {p \in pairs \ raising : products[p].elem # others[p].value}
    IN {[err |-> IF products[p].err # NoError THEN products[p].err ELSE others[p].err,
         value |-> FALSE] : p \in raising}
       \cup {[err |-> NoError, value |-> FALSE] : p \in differing}
       \cup (IF raising \cup differing = {}
             THEN {[err |-> NoError, value |-> TRUE]} ELSE {})

\* group.py:224 with <= in the place of <
GroupLtNotStrict(self, other) ==
    IF ~(Range(self.set) \subseteq Range(other.set))
    THEN {[err |-> NoError, value |-> FALSE]}
    ELSE LtScan(self, other)

\* Group.__lt__(self, other_group), other_group a Group: its possible
\* outcomes, each the exception raised and the value returned
GroupLt(self, other) ==
    LET is_subset == /\ Range(self.set) \subseteq Range(other.set)
                     /\ Range(self.set) # Range(other.set)
    IN IF ~is_subset
       THEN {[err |-> NoError, value |-> FALSE]}
       ELSE LtScan(self, other)

\* Group.is_cyclic(): group.py:266 calls e.order() on the first Element of the
\* iteration, and Element has no method order (element.py:182-185 is a
\* comment), so the call raises AttributeError before any comparison.
GroupIsCyclic(g) ==
    IF Len(GroupIter(g)) = 0
    THEN [err |-> NoError, value |-> FALSE]
    ELSE [err |-> Raise("AttributeError", "order"), value |-> FALSE]

\* Group.find_isomorphism(other), other a Group (Group.py:301-348): None when
\* the lengths or the Abelian flags differ; otherwise Group.py:316 calls
\* self.generators(), which no Group has (Group.py:280-298 is a comment, as
\* is the whole method in group.py:304-352), and raises AttributeError.
GroupFindIsomorphism(self, other) ==
    IF \/ Cardinality(Range(self.set)) # Cardinality(Range(other.set))
       \/ self.abelian # other.abelian
    THEN [err |-> NoError, kind |-> "None"]
    ELSE [err |-> Raise("AttributeError", "generators"), kind |-> "none"]

-----------------------------------------------------------------------------
\* group.py: the archetypes

\* Zn: the bin_op of group.py:405-406
ZnBinOp(n) ==
    LET elems == 0 .. (n - 1) IN
    Function(Power2(elems), elems, [x \in Power2(elems) |-> (x[1] + x[2]) % n])

\* itertools.permutations of the list s, in the order it yields them
RECURSIVE PermList(_)
PermList(s) ==
    IF Len(s) = 0 THEN << <<>> >>
    ELSE LET without(i) == SubSeq(s, 1, i - 1) \o SubSeq(s, i + 1, Len(s))
             block(i) == LET ps == PermList(without(i)) IN
                         [k \in DOMAIN ps |-> <<s[i]>> \o ps[k]]
             RECURSIVE upto(_)
             upto(i) == IF i = 0 THEN <<>> ELSE upto(i - 1) \o block(i)
         IN upto(Len(s))

\* The rotations of range(n) only, in place of its permutations
SnOrderedElemsRotations(n) ==
    [k \in 1 .. n |-> [i \in 1 .. n |-> (i + k - 2) % n]]

\* Sn: group.py:460, a permutation string as the sequence of its digits
SnOrderedElems(n) == PermList([i \in 1 .. n |-> i - 1])

\* The bin_op of Sn with the operands of the composition exchanged
SnBinOpReversed(n) ==
    LET elems == Range(SnOrderedElems(n)) IN
    Function(Power2(elems), elems,
             [x \in Power2(elems) |-> [k \in DOMAIN x[1] |-> x[2][x[1][k] + 1]]])

\* Sn: the bin_op of group.py:461-462; x[0][int(i)] is the digit of x[0] at the
\* 0-based position i
SnBinOp(n) ==
    LET elems == Range(SnOrderedElems(n)) IN
    Function(Power2(elems), elems,
             [x \in Power2(elems) |-> [k \in DOMAIN x[2] |-> x[1][x[2][k] + 1]]])

\* The decimal digits as one-character strings; a string is the sequence of
\* its characters
Digit == <<"0", "1", "2", "3", "4", "5", "6", "7", "8", "9">>

\* str(k) of an int k >= 0
RECURSIVE Str(_)
Str(k) ==
    IF k < 10 THEN <<Digit[k + 1]>>
    ELSE Str(k \div 10) \o <<Digit[(k % 10) + 1]>>

\* int(c) of a one-character string c that is a digit
IntOf(c) == Index(Digit, c) - 1

\* Dn: "r%s" % r and "r%ss" % r (group.py:478)
DnRot(r) == <<"r">> \o Str(r)
DnFlip(r) == <<"r">> \o Str(r) \o <<"s">>

\* Dn: ordered_elems of group.py:478, the rotations and then the flips
DnOrderedElems(n) ==
    [k \in 1 .. (2 * n) |-> IF k <= n THEN DnRot(k - 1) ELSE DnFlip(k - 1 - n)]

\* Dn: multiply_rots_and_flips of group.py:482-507; y[-1] is the last
\* character and y[1] the character after the "r"
DnMultiply(n, x) ==
    LET s1 == x[1][Len(x[1])] = "s"
        s2 == x[2][Len(x[2])] = "s"
        r1 == IntOf(x[1][2])
        r2 == IntOf(x[2][2])
    IN IF s2
       THEN IF s1 THEN DnRot((r1 - r2) % n) ELSE DnFlip((r1 + r2) % n)
       ELSE IF s1 THEN DnFlip((r1 - r2) % n) ELSE DnRot((r1 + r2) % n)

\* Dn: the bin_op of group.py:510
DnBinOp(n) ==
    LET elems == Range(DnOrderedElems(n)) IN
    Function(Power2(elems), elems, [x \in Power2(elems) |-> DnMultiply(n, x)])

-----------------------------------------------------------------------------
\* The calls of the model

NoCall == [name |-> "none"]
NoRet == [kind |-> "none"]

\* A raw value that is no member of G: a value of a larger group of its kind
Foreign ==
    IF ctor.name = "Zn" THEN {ctor.n}
    ELSE IF ctor.name = "Sn" THEN {[i \in 1 .. (ctor.n + 1) |-> i - 1]}
    ELSE IF ctor.name = "Dn" THEN {DnRot(ctor.n)}
    ELSE Carrier \ G.elements

\* The lists handed to generate: those of at most MaxSeeds different values, and
\* the list of all the elements of G
Seeds ==
    {S \in SUBSET (G.elements \cup Foreign) : Cardinality(S) <= MaxSeeds}
        \cup {G.elements}

\* Zn(n) and Sn(n) as Group objects, one per iteration order of their sets
ZnGroups(n) ==
    {GroupInit(0 .. (n - 1), ZnBinOp(n), FALSE, <<>>, FALSE, set).group :
        set \in Orders(0 .. (n - 1))}

SnGroups(n) ==
    {GroupInit(Range(SnOrderedElems(n)), SnBinOp(n), TRUE, SnOrderedElems(n),
               TRUE, set).group : set \in Orders(Range(SnOrderedElems(n)))}

\* The Groups G.generate([x]) returns for the elements x of G
CyclicSubgroups ==
    {r.group : r \in {o \in UNION {GroupGenerate(G, {x}) : x \in G.elements} :
                        o.err = NoError}}

\* The other Group of a call with two Groups whose elements are compared: G
\* itself, a Group generated from G, or an archetype with values of the kind
\* of G's
ZnOthers == UNION {ZnGroups(n) : n \in 1 .. MaxOther}
SnOthers == UNION {SnGroups(n) : n \in 1 .. MaxOther}
OtherGroups ==
    {G} \cup CyclicSubgroups \cup (IF ctor.name = "Sn" THEN SnOthers ELSE ZnOthers)

\* The other Group of find_isomorphism: G itself, a Zn(n) or an Sn(n)
ZnCandidates == UNION {ZnGroups(n) : n \in 1 .. MaxZn}
SnCandidates == UNION {SnGroups(n) : n \in 1 .. MaxSn}
IsomorphismCandidates(kind) ==
    IF kind = "Zn" THEN ZnCandidates
    ELSE IF kind = "Sn" THEN SnCandidates
    ELSE {G}

\* What a call records of a Group it was handed
Brief(g) == [elements |-> g.elements, bin_op |-> g.bin_op, abelian |-> g.abelian]

\* A Group is immutable, so a method call depends on no call before it: the model
\* makes a call on a Group just built, or after an iteration of it.
Callable == G.exists /\ call.name \in {"none", "iter"}

\* G was just built and no method of it was called yet.
Fresh == G.exists /\ call = NoCall

Init ==
    /\ func = NoFunction
    /\ G = NoGroup
    /\ ctor = NoCall
    /\ call = NoCall
    /\ ret = NoRet
    /\ err = NoError

\* f = Function(E**2, codomain, mapping) for a Set E of raw values
NewFunction ==
    /\ ctor = NoCall
    /\ \E E \in SUBSET Carrier, codomain \in SUBSET Carrier :
         \E function \in [Power2(E) -> Carrier] :
           LET e == FunctionInitError(Power2(E), codomain, function) IN
           /\ ctor' = [name |-> "Function", domain |-> Power2(E),
                       codomain |-> codomain, function |-> function]
           /\ err' = e
           /\ func' = IF e = NoError THEN Function(Power2(E), codomain, function)
                      ELSE NoFunction
           /\ UNCHANGED <<G, call, ret>>

\* Group(elements, func, display_order, skip_checks), for the Sets elements whose
\* pairs cover the domain of func
NewGroup ==
    /\ ctor.name = "Function"
    /\ err = NoError
    /\ \E elements \in {S \in SUBSET Carrier : func.domain \subseteq Power2(S)},
          skip_checks \in BOOLEAN :
         \E set \in Orders(elements) :
           LET early == EarlyError(elements, func, skip_checks, set) IN
           IF early # NoError
           THEN /\ ctor' = [name |-> "Group", elements |-> elements,
                            skip_checks |-> skip_checks]
                /\ err' = early
                /\ UNCHANGED <<func, G, call, ret>>
           ELSE \E has_display \in BOOLEAN :
                  \E display_order \in IF has_display
                                       THEN SeqsUpTo(Carrier, MaxDisplayLen)
                                       ELSE {<<>>} :
                    LET r == GroupInit(elements, func, has_display, display_order,
                                       skip_checks, set) IN
                    /\ ctor' = [name |-> "Group", elements |-> elements,
                                skip_checks |-> skip_checks,
                                has_display |-> has_display,
                                display_order |-> display_order]
                    /\ err' = r.err
                    /\ G' = r.group
                    /\ UNCHANGED <<func, call, ret>>

\* list(G)
Iterate ==
    /\ Callable
    /\ call' = [name |-> "iter"]
    /\ ret' = [kind |-> "list", value |-> GroupIter(G)]
    /\ err' = NoError
    /\ UNCHANGED <<func, G, ctor>>

\* G.invert(Element(v, H)) for an Element of G or, v being no member of G, of
\* another group H
Invert ==
    /\ Callable
    /\ \E v \in G.elements \cup Foreign :
         LET r == GroupInvert(G, v) IN
         /\ call' = [name |-> "invert", element |-> v]
         /\ err' = r.err
         /\ ret' = IF r.err = NoError THEN [kind |-> "Element", value |-> r.value]
                   ELSE NoRet
         /\ UNCHANGED <<func, G, ctor>>

\* G.generate(elements), elements a list of raw values
Generate ==
    /\ Callable
    /\ \E elements \in Seeds :
         \E r \in GroupGenerate(G, elements) :
           /\ call' = [name |-> "generate", elements |-> elements]
           /\ err' = r.err
           /\ ret' = IF r.err = NoError THEN [kind |-> "Group", value |-> r.group]
                     ELSE NoRet
           /\ UNCHANGED <<func, G, ctor>>

\* G.subgroups()
Subgroups ==
    /\ Callable
    /\ \E r \in GroupSubgroups(G) :
         /\ call' = [name |-> "subgroups"]
         /\ err' = r.err
         /\ ret' = IF r.err = NoError THEN [kind |-> "Groups", value |-> r.groups]
                   ELSE NoRet
         /\ UNCHANGED <<func, G, ctor>>

\* Zn(n) with the elements of group.py:405 taken from range(1, n + 1)
ZnFromOne ==
    /\ ctor = NoCall
    /\ \E n \in 0 .. MaxZn :
         \E set \in Orders(1 .. n) :
           LET bin_op == Function(Power2(1 .. n), 1 .. n,
                                  [x \in Power2(1 .. n) |-> (x[1] + x[2]) % n])
               r == GroupInit(1 .. n, bin_op, FALSE, <<>>, FALSE, set) IN
           /\ ctor' = [name |-> "Zn", n |-> n]
           /\ func' = bin_op
           /\ err' = r.err
           /\ G' = r.group
           /\ UNCHANGED <<call, ret>>

\* Zn(n)
Zn ==
    /\ ctor = NoCall
    /\ \E n \in 0 .. MaxZn :
         \E set \in Orders(0 .. (n - 1)) :
           LET r == GroupInit(0 .. (n - 1), ZnBinOp(n), FALSE, <<>>, FALSE, set) IN
           /\ ctor' = [name |-> "Zn", n |-> n]
           /\ func' = ZnBinOp(n)
           /\ err' = r.err
           /\ G' = r.group
           /\ UNCHANGED <<call, ret>>

\* Sn(n), for the small n and for the first n that is refused
Sn ==
    /\ ctor = NoCall
    /\ \E n \in (1 .. MaxSn) \cup {SnRefused + 1} :
         IF n > SnRefused
         THEN /\ ctor' = [name |-> "Sn", n |-> n]
              /\ err' = Raise("ValueError", "wait time")
              /\ UNCHANGED <<func, G, call, ret>>
         ELSE \E set \in Orders(Range(SnOrderedElems(n))) :
                LET r == GroupInit(Range(SnOrderedElems(n)), SnBinOp(n), TRUE,
                                   SnOrderedElems(n), TRUE, set) IN
                /\ ctor' = [name |-> "Sn", n |-> n]
                /\ func' = SnBinOp(n)
                /\ err' = r.err
                /\ G' = r.group
                /\ UNCHANGED <<call, ret>>

\* G < other and other < G
Lt ==
    /\ Fresh
    /\ \E other \in OtherGroups, swap \in BOOLEAN :
         LET self == IF swap THEN other ELSE G
             other_group == IF swap THEN G ELSE other
         IN \E r \in GroupLt(self, other_group) :
              /\ call' = [name |-> "lt", self |-> Brief(self),
                          other |-> Brief(other_group)]
              /\ err' = r.err
              /\ ret' = IF r.err = NoError THEN [kind |-> "bool", value |-> r.value]
                        ELSE NoRet
              /\ UNCHANGED <<func, G, ctor>>

\* G.is_cyclic()
IsCyclic ==
    /\ Fresh
    /\ LET r == GroupIsCyclic(G) IN
       /\ call' = [name |-> "is_cyclic"]
       /\ err' = r.err
       /\ ret' = IF r.err = NoError THEN [kind |-> "bool", value |-> r.value]
                 ELSE NoRet
       /\ UNCHANGED <<func, G, ctor>>

\* G.find_isomorphism(other)
FindIsomorphism ==
    /\ Fresh
    /\ \E kind \in {"self", "Zn", "Sn"} :
       \E other \in IsomorphismCandidates(kind) :
         LET r == GroupFindIsomorphism(G, other) IN
         /\ call' = [name |-> "find_isomorphism", other |-> Brief(other)]
         /\ err' = r.err
         /\ ret' = [kind |-> r.kind]
         /\ UNCHANGED <<func, G, ctor>>

\* What a call records of the Element an operator returned
ElementRet(r) ==
    IF r.err = NoError
    THEN [kind |-> "Element", value |-> r.elem, group |-> Brief(r.group),
          warnings |-> r.warnings]
    ELSE [kind |-> "none", warnings |-> r.warnings]

\* A table that passes the checks of Group.__init__ under the order 0, 1, 2, 3,
\* 4 of its Set and is not associative: 4 * (4 * 4) = 0, (4 * 4) * 4 = 2
NonAssociativeRows ==
    << <<0, 1, 2, 3, 4>>,
       <<1, 0, 2, 3, 4>>,
       <<2, 0, 2, 2, 2>>,
       <<3, 0, 2, 2, 2>>,
       <<4, 0, 0, 2, 3>> >>

\* The Sets E and the mappings handed to Group(E, Function(E**2, E, mapping))
\* in ElementSpec: every table of the Sets of at most MaxTable raw values, and
\* the table above
TableInputs ==
    UNION {{[elements |-> E, function |-> t] : t \in [Power2(E) -> E]} :
              E \in {S \in SUBSET Carrier : Cardinality(S) <= MaxTable}}
        \cup {[elements |-> 0 .. 4,
               function |-> [x \in Power2(0 .. 4) |->
                                NonAssociativeRows[x[1] + 1][x[2] + 1]]]}

\* Group(E, Function(E**2, E, mapping)): the two constructor calls in one step
TableGroup ==
    /\ ctor = NoCall
    /\ \E input \in TableInputs :
         \E set \in Orders(input.elements) :
           LET E == input.elements
               f == Function(Power2(E), E, input.function)
               r == GroupInit(E, f, FALSE, <<>>, FALSE, set)
           IN /\ ctor' = [name |-> "Group", elements |-> E, skip_checks |-> FALSE,
                          has_display |-> FALSE, display_order |-> <<>>]
              /\ func' = f
              /\ err' = r.err
              /\ G' = r.group
              /\ UNCHANGED <<call, ret>>

\* a ** k for an Element a of G
Pow ==
    /\ Fresh
    /\ \E a \in G.elements, k \in (-MaxExponent) .. MaxExponent :
         LET r == ElementPow(Element(a, G), k) IN
         /\ call' = [name |-> "pow", element |-> a, exponent |-> k]
         /\ err' = r.err
         /\ ret' = ElementRet(r)
         /\ UNCHANGED <<func, G, ctor>>

\* a * k and k * a for an Element a of G
MulInt ==
    /\ Fresh
    /\ \E a \in G.elements, k \in (-MaxExponent) .. MaxExponent,
          name \in {"mul_int", "rmul_int"} :
         LET r == ElementMulInt(Element(a, G), k) IN
         /\ call' = [name |-> name, element |-> a, exponent |-> k]
         /\ err' = r.err
         /\ ret' = ElementRet(r)
         /\ UNCHANGED <<func, G, ctor>>

\* -a for an Element a of G
Neg ==
    /\ Fresh
    /\ \E a \in G.elements :
         LET r == ElementNeg(Element(a, G)) IN
         /\ call' = [name |-> "neg", element |-> a]
         /\ err' = r.err
         /\ ret' = ElementRet(r)
         /\ UNCHANGED <<func, G, ctor>>

\* a + b and a - b for an Element of G and an Element of another Group, in
\* either order
AddSub ==
    /\ Fresh
    /\ \E other \in OtherGroups, swap \in BOOLEAN, name \in {"add", "sub"} :
         LET A == IF swap THEN other ELSE G
             B == IF swap THEN G ELSE other
         IN \E a \in A.elements, b \in B.elements :
              LET r == IF name = "add"
                       THEN ElementAdd(Element(a, A), Element(b, B))
                       ELSE ElementSub(Element(a, A), Element(b, B))
              IN /\ call' = [name |-> name, element |-> a, group |-> Brief(A),
                             other |-> b, other_group |-> Brief(B)]
                 /\ err' = r.err
                 /\ ret' = ElementRet(r)
                 /\ UNCHANGED <<func, G, ctor>>

\* a * b for an Element of G and an Element of another Group, in either order
CrossMul ==
    /\ Fresh
    /\ \E other \in OtherGroups, swap \in BOOLEAN :
         LET A == IF swap THEN other ELSE G
             B == IF swap THEN G ELSE other
         IN \E a \in A.elements, b \in B.elements :
              LET r == ElementMul(Element(a, A), Element(b, B)) IN
              /\ call' = [name |-> "mul", element |-> a, group |-> Brief(A),
                          other |-> b, other_group |-> Brief(B)]
              /\ err' = r.err
              /\ ret' = ElementRet(r)
              /\ UNCHANGED <<func, G, ctor>>

Next ==
    \/ NewFunction
    \/ NewGroup
    \/ Iterate
    \/ Invert
    \/ Generate
    \/ Subgroups
    \/ Zn
    \/ Sn
    \/ Lt
    \/ IsCyclic
    \/ FindIsomorphism

Spec == Init /\ [][Next]_vars

\* The operators of Element, on the archetypes and on the Groups of TableGroup
ElementNext ==
    \/ Zn
    \/ Sn
    \/ TableGroup
    \/ Pow
    \/ MulInt
    \/ Neg
    \/ AddSub
    \/ CrossMul

ElementSpec == Init /\ [][ElementNext]_vars

-----------------------------------------------------------------------------
\* The calls of function.py

\* The raw values of the domains and codomains
FnValues == 0 .. MaxValue

\* What the domain of a Function of the arity is taken from, and what its
\* mapping is defined on
Arguments(arity) == IF arity = 1 THEN FnValues ELSE Power2({0, 1})

\* The Function objects with domains of raw values: a mapping may be defined
\* beyond the domain, and differ there from a mapping that is equal on it.
ValueFunctions ==
    {Function(c[1], c[2], c[3]) :
        c \in {d \in (SUBSET FnValues) \X (SUBSET FnValues) \X [FnValues -> FnValues] :
                  FunctionInitError(d[1], d[2], d[3]) = NoError}}

\* The Function built last exists and no method of it was called yet.
FreshFunction == ctor.name = "Function" /\ err = NoError /\ call = NoCall

\* Function(domain, codomain, mapping), each of domain and codomain a Set or
\* a list
FnNew ==
    /\ ctor = NoCall
    /\ \E arity \in {1, 2}, domain_is_set \in BOOLEAN, codomain_is_set \in BOOLEAN :
         \E domain \in SUBSET Arguments(arity), codomain \in SUBSET FnValues,
            function \in [Arguments(arity) -> FnValues] :
           LET e == FunctionNew(domain_is_set, codomain_is_set, domain, codomain,
                                function) IN
           /\ ctor' = [name |-> "Function", arity |-> arity,
                       domain_is_set |-> domain_is_set,
                       codomain_is_set |-> codomain_is_set,
                       domain |-> domain, codomain |-> codomain,
                       function |-> function]
           /\ err' = e
           /\ func' = IF e = NoError THEN Function(domain, codomain, function)
                      ELSE NoFunction
           /\ UNCHANGED <<G, call, ret>>

\* func(*args) and func(args) for a tuple args of at most 2 raw values
FnCall ==
    /\ FreshFunction
    /\ \E args \in SeqsUpTo(FnValues, 2), as_tuple \in BOOLEAN :
         LET r == CallPacked(func, ctor.arity, args, as_tuple) IN
         /\ call' = [name |-> "call", args |-> args, as_tuple |-> as_tuple]
         /\ err' = r.err
         /\ ret' = IF r.err = NoError THEN [kind |-> "value", value |-> r.value]
                   ELSE NoRet
         /\ UNCHANGED <<func, G, ctor>>

\* func.compose(inner_func)
FnCompose ==
    /\ FreshFunction
    /\ ctor.arity = 1
    /\ \E is_function \in BOOLEAN :
       \E inner_func \in IF is_function THEN ValueFunctions ELSE {NoFunction} :
         LET r == FunctionCompose(func, inner_func, is_function) IN
         /\ call' = [name |-> "compose", is_function |-> is_function,
                     inner_func |-> inner_func]
         /\ err' = r.err
         /\ ret' = IF r.err = NoError THEN [kind |-> "Function", value |-> r.function]
                   ELSE NoRet
         /\ UNCHANGED <<func, G, ctor>>

\* func == other_func, other_func == func and the two hashes
FnEq ==
    /\ FreshFunction
    /\ ctor.arity = 1
    /\ \E is_function \in BOOLEAN, same_object \in BOOLEAN :
       \E other_func \in IF is_function THEN ValueFunctions ELSE {NoFunction} :
         /\ same_object => (is_function /\ other_func = func)
         /\ call' = [name |-> "eq", is_function |-> is_function,
                     same_object |-> same_object, other_func |-> other_func]
         /\ err' = NoError
         /\ ret' = [kind |-> "eq",
                    value |-> FunctionEq(func, other_func, is_function, same_object),
                    reverse |-> IF is_function
                                THEN FunctionEq(other_func, func, TRUE, same_object)
                                ELSE FALSE,
                    hash |-> FunctionHash(func),
                    other_hash |-> FunctionHash(other_func)]
         /\ UNCHANGED <<func, G, ctor>>

\* func.image(), func.is_surjective(), func.is_injective(), func.is_bijective()
FnPredicates ==
    /\ FreshFunction
    /\ call' = [name |-> "predicates"]
    /\ err' = NoError
    /\ ret' = [kind |-> "predicates",
               image |-> FunctionImage(func),
               is_surjective |-> FunctionIsSurjective(func),
               is_injective |-> FunctionIsInjective(func),
               is_bijective |-> FunctionIsBijective(func)]
    /\ UNCHANGED <<func, G, ctor>>

FunctionNext ==
    \/ FnNew
    \/ FnCall
    \/ FnCompose
    \/ FnEq
    \/ FnPredicates

FunctionSpec == Init /\ [][FunctionNext]_vars

-----------------------------------------------------------------------------
\* The comparisons of Groups

\* A mapping with the values of f on its domain and with another body: it is
\* defined on one more pair
OtherBody(f) ==
    [f EXCEPT !.function =
        [x \in f.domain \cup {<<-1, -1>>} |-> IF x \in f.domain THEN f.function[x]
                                              ELSE 0]]

\* Group objects with the elements and the products of g: built from another
\* mapping, with another iteration order of the Set, with no display order
Variants(g) ==
    {[g EXCEPT !.bin_op = b] : b \in {g.bin_op, OtherBody(g.bin_op)}}
      \cup {[g EXCEPT !.bin_op = b, !.set = s, !.has_display = FALSE,
                      !.display_order = <<>>] :
                b \in {g.bin_op, OtherBody(g.bin_op)}, s \in Orders(g.elements)}

\* What G is compared with
EqOthers == Variants(G) \cup ZnOthers \cup CyclicSubgroups

\* G == other_group and the two hashes, for the Groups of raw values that are
\* ints
Eq ==
    /\ Fresh
    /\ ctor.name \in {"Zn", "Group"}
    /\ \E is_group \in BOOLEAN, same_object \in BOOLEAN :
       \E other_group \in IF is_group THEN EqOthers ELSE {NoGroup} :
         /\ same_object => (is_group /\ other_group = G)
         /\ call' = [name |-> "group_eq", is_group |-> is_group,
                     same_object |-> same_object, other_group |-> other_group]
         /\ err' = NoError
         /\ ret' = [kind |-> "group_eq",
                    value |-> GroupEquals(G, other_group, is_group, same_object),
                    hash |-> GroupHash(G),
                    other_hash |-> IF is_group THEN GroupHash(other_group) ELSE 0]
         /\ UNCHANGED <<func, G, ctor>>

EqNext ==
    \/ NewFunction
    \/ NewGroup
    \/ Zn
    \/ Eq

EqSpec == Init /\ [][EqNext]_vars

-----------------------------------------------------------------------------
\* The membership tests

\* What is tested for membership in G: an Element of some Group, a raw int
\* (its own hash), or another object, of any hash
Items ==
    LET values == G.elements \cup Foreign IN
    {[kind |-> k, value |-> v, hash |-> v] : k \in {"Element", "raw"}, v \in values}
      \cup {[kind |-> "object", value |-> -1, hash |-> h] : h \in values}

\* item in G, for a Zn(n)
Contains ==
    /\ Fresh
    /\ \E item \in Items :
         LET r == GroupContains(G, item) IN
         /\ call' = [name |-> "contains", item |-> item]
         /\ err' = r.err
         /\ ret' = IF r.err = NoError THEN [kind |-> "bool", value |-> r.value]
                   ELSE NoRet
         /\ UNCHANGED <<func, G, ctor>>

ContainsNext ==
    \/ Zn
    \/ Contains

ContainsSpec == Init /\ [][ContainsNext]_vars

-----------------------------------------------------------------------------
\* The constructions of Groups with arguments of any type

\* Group(elements, func, display_order, skip_checks), elements a Set or a
\* list and func a Function or its bare mapping.  A call that fails before
\* display_order is read is made with the shortest display_order, one that
\* fails on the type of an argument with the defaults of the others.
Construct ==
    /\ ctor.name = "Function"
    /\ err = NoError
    /\ \E elements \in {S \in SUBSET Carrier : func.domain \subseteq Power2(S)},
          skip_checks \in BOOLEAN, has_display \in BOOLEAN,
          elements_is_set \in BOOLEAN, bin_op_is_function \in BOOLEAN :
         \E set \in Orders(elements) :
           /\ (~elements_is_set \/ ~bin_op_is_function) => (~skip_checks /\ ~has_display)
           /\ \E display_order \in
                 IF /\ has_display /\ elements_is_set /\ bin_op_is_function
                       /\ EarlyError(elements, func, skip_checks, set) = NoError
                    THEN SeqsUpTo(Carrier, MaxDisplayLen)
                    ELSE {<<>>} :
                LET r == GroupNew(elements_is_set, bin_op_is_function, elements, func,
                                  has_display, display_order, skip_checks, set) IN
                /\ ctor' = [name |-> "Group", elements |-> elements,
                            skip_checks |-> skip_checks,
                            has_display |-> has_display,
                            display_order |-> display_order,
                            elements_is_set |-> elements_is_set,
                            bin_op_is_function |-> bin_op_is_function]
                /\ err' = r.err
                /\ G' = r.group
                /\ UNCHANGED <<func, call, ret>>

ConstructNext ==
    \/ NewFunction
    \/ Construct

ConstructSpec == Init /\ [][ConstructNext]_vars

-----------------------------------------------------------------------------
\* generate and subgroups, one iteration of their loops at a time.  The
\* running call keeps its local variables in call.

\* Zn(n) for the small n
LoopZn == Zn /\ ctor'.n <= MaxLoopZn

\* G.generate(elements) up to the while of group.py:256
GenerateStart ==
    /\ Fresh
    /\ \E elements \in Seeds :
         LET e == IF elements = {} THEN Raise("ValueError", "empty")
                  ELSE IF ~(elements \subseteq G.elements)
                  THEN Raise("ValueError", "not in group")
                  ELSE NoError
         IN /\ call' = [name |-> "generate_loop", elements |-> elements,
                        pc |-> IF e = NoError THEN "loop" ELSE "done",
                        old_set |-> elements, new_set |-> {}, iterations |-> 0]
            /\ err' = e
            /\ UNCHANGED <<func, G, ctor, ret>>

\* group.py:256-258: the test of the while passes and its body runs
GenerateStep ==
    /\ call.name = "generate_loop"
    /\ call.pc = "loop"
    /\ call.old_set # call.new_set
    /\ call.iterations < MaxIterations
    /\ \E order \in Orders(call.old_set \cup call.new_set) :
         LET b == GenerateBody(G.bin_op, call.old_set, call.new_set, order) IN
         /\ call' = [call EXCEPT !.old_set = b.old_set, !.new_set = b.new_set,
                                 !.iterations = @ + 1]
         /\ UNCHANGED <<func, G, ctor, ret, err>>

\* group.py:256 and 261: the test of the while fails and the Group is built
GenerateReturn ==
    /\ call.name = "generate_loop"
    /\ call.pc = "loop"
    /\ call.old_set = call.new_set
    /\ \E set \in Orders(call.new_set) :
         LET r == GroupInit(call.new_set, G.bin_op, FALSE, <<>>, FALSE, set) IN
         /\ call' = [call EXCEPT !.pc = "done"]
         /\ err' = r.err
         /\ ret' = IF r.err = NoError THEN [kind |-> "Group", value |-> r.group]
                   ELSE NoRet
         /\ UNCHANGED <<func, G, ctor>>

\* G.subgroups() up to the while of group.py:275; a Group of the Sets is
\* kept as the Set of its raw values
SubgroupsStart ==
    /\ Fresh
    /\ \E t \in GenerateSets(G, {G.e}) :
         /\ call' = [name |-> "subgroups_loop",
                     pc |-> IF t.err = NoError THEN "loop" ELSE "done",
                     old_set |-> IF t.err = NoError THEN {t.elements} ELSE {},
                     new_set |-> {}, iterations |-> 0]
         /\ err' = t.err
         /\ UNCHANGED <<func, G, ctor, ret>>

\* group.py:275-280: the test of the while passes and its body runs, to its
\* end or to the first generate that raises
SubgroupsStep ==
    /\ call.name = "subgroups_loop"
    /\ call.pc = "loop"
    /\ call.old_set # call.new_set
    /\ call.iterations < MaxIterations
    /\ LET old == call.old_set \cup call.new_set
           pairs == UNION {{<<H, x>> : x \in G.elements \ H} : H \in old}
       IN \E o \in GenerateAll(G, pairs) :
            /\ call' = IF o.err # NoError THEN [call EXCEPT !.pc = "done"]
                       ELSE [call EXCEPT !.old_set = old,
                                         !.new_set = old \cup o.groups,
                                         !.iterations = @ + 1]
            /\ err' = o.err
            /\ UNCHANGED <<func, G, ctor, ret>>

\* group.py:275 and 283: the test of the while fails and new_set is returned
SubgroupsReturn ==
    /\ call.name = "subgroups_loop"
    /\ call.pc = "loop"
    /\ call.old_set = call.new_set
    /\ call' = [call EXCEPT !.pc = "done"]
    /\ ret' = [kind |-> "Groups", value |-> call.new_set]
    /\ UNCHANGED <<func, G, ctor, err>>

LoopSteps ==
    \/ GenerateStep
    \/ GenerateReturn
    \/ SubgroupsStep
    \/ SubgroupsReturn

LoopNext ==
    \/ LoopZn
    \/ TableGroup
    \/ GenerateStart
    \/ SubgroupsStart
    \/ LoopSteps

\* A call that has started goes on running: Python runs the statements of a
\* method one after the other.
LoopSpec == Init /\ [][LoopNext]_vars /\ WF_vars(LoopSteps)

-----------------------------------------------------------------------------
\* The calls on the dihedral groups

\* Dn(n)
Dn ==
    /\ ctor = NoCall
    /\ \E n \in 0 .. MaxDn :
         LET elems == Range(DnOrderedElems(n))
             bin_op == DnBinOp(n)
             e == FunctionInitError(bin_op.domain, elems, bin_op.function)
         IN IF e # NoError
            THEN /\ ctor' = [name |-> "Dn", n |-> n]
                 /\ err' = e
                 /\ UNCHANGED <<func, G, call, ret>>
            ELSE \E set \in Orders(elems) :
                   LET r == GroupInit(elems, bin_op, TRUE, DnOrderedElems(n),
                                      FALSE, set) IN
                   /\ ctor' = [name |-> "Dn", n |-> n]
                   /\ func' = bin_op
                   /\ err' = r.err
                   /\ G' = r.group
                   /\ UNCHANGED <<call, ret>>

DnNext ==
    \/ Dn
    \/ Invert

DnSpec == Init /\ [][DnNext]_vars

-----------------------------------------------------------------------------
\* The calls on Set objects

\* The Sets of raw values
Sets == SUBSET (0 .. MaxMember)

\* The Set built last exists and no method of it was called yet.
FreshSet == ctor.name = "Set" /\ call = NoCall

\* Set(iterable)
SetNew ==
    /\ ctor = NoCall
    /\ \E set \in Sets :
         /\ ctor' = [name |-> "Set", set |-> set]
         /\ UNCHANGED <<func, G, call, ret, err>>

\* What a Set call leaves in ret
SetRet(r) ==
    IF r.err = NoError THEN [kind |-> "Set", value |-> r.value] ELSE NoRet

\* set * other_set, other_set a Set or a list
SetTimes ==
    /\ FreshSet
    /\ \E other_is_set \in BOOLEAN, other_set \in Sets :
         LET r == SetMul(ctor.set, other_is_set, other_set) IN
         /\ call' = [name |-> "mul", other_is_set |-> other_is_set,
                     other_set |-> other_set]
         /\ err' = r.err
         /\ ret' = SetRet(r)
         /\ UNCHANGED <<func, G, ctor>>

\* set ** exponent, exponent an int or a float of the same value
SetPower ==
    /\ FreshSet
    /\ \E is_int \in BOOLEAN, exponent \in (0 - MaxPower) .. MaxPower :
         LET r == SetPow(ctor.set, is_int, exponent) IN
         /\ call' = [name |-> "pow", is_int |-> is_int, exponent |-> exponent]
         /\ err' = r.err
         /\ ret' = SetRet(r)
         /\ UNCHANGED <<func, G, ctor>>

SetNext ==
    \/ SetNew
    \/ SetTimes
    \/ SetPower

SetSpec == Init /\ [][SetNext]_vars

-----------------------------------------------------------------------------
\* The properties

\* The product of a and b in the table of g
Times(g, a, b) == g.bin_op.function[<<a, b>>]

Associative(g) ==
    \A a \in g.elements, b \in g.elements, c \in g.elements :
        Times(g, a, Times(g, b, c)) = Times(g, Times(g, a, b), c)

\* S is closed under the operation of g, in both orders
Closed(g, S) == \A a \in S, b \in S : Times(g, a, b) \in S

\* The smallest closed subset of g that contains seeds
Closure(g, seeds) ==
    {x \in g.elements :
        \A S \in SUBSET g.elements : (seeds \subseteq S /\ Closed(g, S)) => x \in S}

\* G was built by a constructor call that ran the associativity check.
BuiltWithChecks ==
    /\ G.exists
    /\ \/ ctor.name = "Zn"
       \/ ctor.name = "Group" /\ ~ctor.skip_checks

\* Group(ctor.elements, func, ...) raised err.
GroupRaised == ctor.name = "Group" /\ ~G.exists

\* The pairs of ctor.elements are in the domain of func, and their products
\* are in ctor.elements.
ArgsClosed ==
    \A a \in ctor.elements, b \in ctor.elements :
        /\ <<a, b>> \in func.domain
        /\ func.function[<<a, b>>] \in ctor.elements

\* The two-sided identities of the table f on the set S
TwoSidedIdentities(S, f) ==
    {e \in S : \A a \in S : f[<<e, a>>] = a /\ f[<<a, e>>] = a}

\* C1: a Group built without skip_checks is associative on every ordered triple
\* of its elements (an operation that is not fails the construction).
C1_CheckedGroupsAssociative == BuiltWithChecks => Associative(G)

\* C2: a Group has exactly one two-sided identity, G.e; Group(...) raises the
\* ValueError of the identity check when the closed arguments have none; the
\* RuntimeError for several identities is never raised.
C2_ExactlyOneIdentity ==
    /\ G.exists => TwoSidedIdentities(G.elements, G.bin_op.function) = {G.e}
    /\ (GroupRaised /\ ArgsClosed /\ TwoSidedIdentities(ctor.elements, func.function) = {})
          => err = Raise("ValueError", "no identity")
    /\ err.msg # "multiple identities"

C2_Witness ==
    /\ G.exists
    /\ ctor.name = "Group"
    /\ Cardinality(G.elements) = 3
    /\ G.e # G.set[1]

WithinBinOp(g) ==
    /\ g.elements \subseteq g.bin_op.codomain
    /\ \A a \in g.elements, b \in g.elements :
         <<a, b>> \in g.bin_op.domain /\ Times(g, a, b) \in g.elements

C5_DisplayOrderIsPermutation ==
    (G.exists /\ ctor.name = "Group" /\ ctor.has_display)
       => /\ Range(ctor.display_order) = G.elements
          /\ Len(ctor.display_order) = Cardinality(G.elements)

\* C6: an iteration of a Group yields each of its elements once: without a
\* display order the identity and then the others in the order of the set,
\* with a display order d the value d[k] at place k.
C6_IterationYieldsEachOnce ==
    call.name = "iter" =>
       /\ Len(ret.value) = Cardinality(G.elements)
       /\ Range(ret.value) = G.elements
       /\ ~G.has_display =>
             /\ ret.value[1] = G.e
             /\ SubSeq(ret.value, 2, Len(ret.value))
                   = SelectSeq(G.set, LAMBDA a : a # G.e)
       /\ (G.has_display /\ ctor.name = "Group") => ret.value = ctor.display_order

\* C7: invert(x) of an Element x of G returns an Element y of G with x * y = e;
\* of an Element that is not in G it raises ValueError; it never raises the
\* RuntimeError of a missing inverse.
C7_InvertReturnsRightInverse ==
    call.name = "invert" =>
       /\ call.element \in G.elements =>
             /\ err = NoError
             /\ ret.kind = "Element"
             /\ ret.value \in G.elements
             /\ Times(G, call.element, ret.value) = G.e
       /\ call.element \notin G.elements => err = Raise("ValueError", "not in group")
       /\ err.exc # "RuntimeError"

C7_Witness ==
    /\ call.name = "invert"
    /\ err = NoError
    /\ ret.value # call.element
    /\ G.has_display

\* C8, for the Groups built with the associativity check on: generate on a
\* non-empty list of members returns a Group whose elements are the smallest
\* closed subset that contains them.
C8_GenerateIsClosure ==
    (BuiltWithChecks /\ call.name = "generate"
        /\ call.elements # {} /\ call.elements \subseteq G.elements)
       => /\ err = NoError
          /\ ret.value.elements = Closure(G, call.elements)

\* Group.__eq__ of two distinct objects
GroupEq(g, h) == g.bin_op = h.bin_op /\ Range(g.set) = Range(h.set)

\* C9, for the Groups built with the associativity check on: generate([e]) is
\* the Group of the identity alone, generate(all the elements) is equal to G.
C9_GenerateIdentityAndAll ==
    (BuiltWithChecks /\ call.name = "generate") =>
       /\ call.elements = {G.e} => (err = NoError /\ ret.value.elements = {G.e})
       /\ call.elements = G.elements => (err = NoError /\ GroupEq(ret.value, G))

\* C10, for the Groups built with the associativity check on: subgroups()
\* returns the subsets that hold the identity and are closed, each once; Zn(9)
\* has 3 of them, of 1, 3 and 9 elements.
C10_SubgroupsAreTheClosedSubsets ==
    (BuiltWithChecks /\ call.name = "subgroups") =>
       /\ err = NoError
       /\ ret.value = {S \in SUBSET G.elements : G.e \in S /\ Closed(G, S)}
       /\ (ctor.name = "Zn" /\ ctor.n = 9) =>
             {Cardinality(H) : H \in ret.value} = {1, 3, 9}

\* H's elements are some but not all of K's, and H's operation agrees with
\* K's on every ordered pair of H's elements.
StrictSubsetSameProducts(H, K) ==
    /\ H.elements \subseteq K.elements
    /\ H.elements # K.elements
    /\ \A a \in H.elements, b \in H.elements :
         H.bin_op.function[<<a, b>>] = K.bin_op.function[<<a, b>>]

\* C11: H < K returns without error, true exactly when H's elements are a
\* strict subset of K's and the operations agree on the pairs of H's
\* elements; so G < G is false and a Group generated from G with fewer
\* elements than G is < G.
C11_LtIsStrictSubgroup ==
    call.name = "lt" =>
       /\ err = NoError
       /\ ret.value = StrictSubsetSameProducts(call.self, call.other)
       /\ call.self = call.other => ~ret.value
       /\ (/\ call.self.bin_op = call.other.bin_op
           /\ call.self.elements \subseteq call.other.elements
           /\ Cardinality(call.self.elements) < Cardinality(call.other.elements))
             => ret.value

\* A generated proper subgroup is < G, and a Group of the same elements with
\* another operation is not.
C11_Witness ==
    /\ call.name = "lt"
    /\ ret.value
    /\ Cardinality(call.self.elements) > 1
    /\ call.other = Brief(G)

\* C12: is_cyclic() returns a boolean, true exactly when some element of G has
\* order len(G): the least k > 0 with x**k = e.
C12_IsCyclicReturnsBoolean ==
    call.name = "is_cyclic" =>
       /\ err = NoError
       /\ ret.kind = "bool"
       /\ ret.value = (\E x \in G.elements : Closure(G, {x}) = G.elements)

\* C13: find_isomorphism(H) returns none when the lengths or the Abelian
\* flags differ and otherwise returns (a mapping or none) without raising.
C13_FindIsomorphismReturns ==
    call.name = "find_isomorphism" =>
       /\ err = NoError
       /\ (\/ Cardinality(G.elements) # Cardinality(call.other.elements)
           \/ G.abelian # call.other.abelian) => ret.kind = "None"
       /\ ret.kind \in {"None", "mapping"}

\* a * a * ... * a with k factors, as Python evaluates it
RECURSIVE LeftProduct(_, _, _)
LeftProduct(g, a, k) ==
    IF k = 1 THEN a ELSE Times(g, LeftProduct(g, a, k - 1), a)

\* C14, for the Groups built with the associativity check on: a ** k returns
\* the product of k factors a for k > 0, the identity for k = 0 and the
\* product of -k factors invert(a) for k < 0.
C14_PowIsRepeatedProduct ==
    (BuiltWithChecks /\ call.name = "pow") =>
       /\ err = NoError
       /\ ret.kind = "Element"
       /\ call.exponent > 0 => ret.value = LeftProduct(G, call.element, call.exponent)
       /\ call.exponent = 0 => ret.value = G.e
       /\ call.exponent < 0 =>
             ret.value = LeftProduct(G, GroupInvert(G, call.element).value,
                                     -call.exponent)

\* The table of the Group record g is commutative.
Commutative(g) ==
    \A a \in g.elements, b \in g.elements :
        g.bin_op.function[<<a, b>>] = g.bin_op.function[<<b, a>>]

\* The call returned what the operator outcome r stands for.
Outcome(r) == err = r.err /\ ret = ElementRet(r)

\* The call raised ValueError and returned no Element.
RaisedValueError == err.exc = "ValueError" /\ ret.kind = "none"

\* C15: in a commutative Group a * k and k * a are a ** k and -a is a ** -1;
\* with both operands in commutative Groups a + b is a * b and a - b is
\* a * c for the c with b * c = e in b's Group; in every other case the
\* operator raises ValueError and returns no Element.
C15_AbelianNotation ==
    /\ call.name \in {"mul_int", "rmul_int"} =>
          IF Commutative(G)
          THEN Outcome(ElementPow(Element(call.element, G), call.exponent))
          ELSE RaisedValueError /\ err.msg = "self-multiply"
    /\ call.name = "neg" =>
          IF Commutative(G)
          THEN Outcome(ElementPow(Element(call.element, G), -1))
          ELSE RaisedValueError /\ err.msg = "Abelian"
    /\ call.name = "add" =>
          IF Commutative(call.group) /\ Commutative(call.other_group)
          THEN Outcome(ElementMul(Element(call.element, call.group),
                                  Element(call.other, call.other_group)))
          ELSE RaisedValueError /\ err.msg = "both Abelian"
    /\ call.name = "sub" =>
          IF Commutative(call.group) /\ Commutative(call.other_group)
          THEN \E c \in call.other_group.elements :
                 /\ call.other_group.bin_op.function[<<call.other, c>>]
                       \in TwoSidedIdentities(call.other_group.elements,
                                              call.other_group.bin_op.function)
                 /\ Outcome(ElementMul(Element(call.element, call.group),
                                       Element(c, call.other_group)))
          ELSE RaisedValueError /\ err.msg = "both Abelian"

\* a - b across two commutative Groups returned an Element other than a.
C15_Witness ==
    /\ call.name = "sub"
    /\ err = NoError
    /\ call.group # call.other_group
    /\ ret.value # call.element
    /\ Cardinality(call.group.elements) > 2

\* The product of x and y by the bin_op of the Group record g is defined and
\* an element of g.
ProductWithin(g, x, y) ==
    /\ <<x, y>> \in g.bin_op.domain
    /\ g.bin_op.function[<<x, y>>] \in g.elements

\* C16, as claimed: when the pair of values is in the domain of a's bin_op,
\* a * b is the Element of a's Group with the product as value, with no
\* warning; otherwise it is, after one warning, the Element of b's Group with
\* the product by b's bin_op.
C16_CrossGroupProduct ==
    call.name = "mul" =>
       IF <<call.element, call.other>> \in call.group.bin_op.domain
       THEN /\ err = NoError
            /\ ret.warnings = 0
            /\ ret.group = call.group
            /\ ret.value = call.group.bin_op.function[<<call.element, call.other>>]
       ELSE /\ err = NoError
            /\ ret.warnings = 1
            /\ ret.group = call.other_group
            /\ ret.value = call.other_group.bin_op.function[<<call.element, call.other>>]

\* C16, amended: a * b is the Element of a's Group when the product by a's
\* bin_op is defined and an element of that Group, with no warning; if not,
\* one warning is printed and a * b is the Element of b's Group when the
\* product by b's bin_op is defined and an element of that Group; if that
\* fails too, a * b raises ValueError and returns no Element.
C16_CrossGroupProductOrError ==
    call.name = "mul" =>
       IF ProductWithin(call.group, call.element, call.other)
       THEN /\ err = NoError
            /\ ret.warnings = 0
            /\ ret.group = call.group
            /\ ret.value = call.group.bin_op.function[<<call.element, call.other>>]
       ELSE /\ ret.warnings = 1
            /\ IF ProductWithin(call.other_group, call.element, call.other)
               THEN /\ err = NoError
                    /\ ret.group = call.other_group
                    /\ ret.value =
                          call.other_group.bin_op.function[<<call.element, call.other>>]
               ELSE RaisedValueError

\* The product fell back to b's Group although the pair of values is in the
\* domain of a's bin_op.
C16_Witness ==
    /\ call.name = "mul"
    /\ err = NoError
    /\ ret.warnings = 1
    /\ <<call.element, call.other>> \in call.group.bin_op.domain

\* The mapping of the Function record f sends its whole domain into its
\* codomain.
MapsIntoCodomain(f) == \A x \in f.domain : f.function[x] \in f.codomain

\* The value a call of func tests is a member of its domain: one positional
\* argument that is a raw value for a domain of raw values, a tuple for a
\* domain of pairs.
CalledWithinDomain ==
    IF ctor.arity = 1
    THEN ~call.as_tuple /\ Len(call.args) = 1 /\ call.args[1] \in func.domain
    ELSE (call.as_tuple \/ Len(call.args) # 1) /\ call.args \in func.domain

\* C17: Function(...) raises TypeError when the domain or the codomain is no
\* Set, ValueError when the mapping sends a member of the domain outside the
\* codomain, and builds the Function otherwise; every Function maps its
\* domain into its codomain; a call returns the value of the mapping at the
\* argument, or at the tuple of the arguments, when that is in the domain,
\* and raises ValueError when it is not.
C17_FunctionIsValidated ==
    /\ (ctor.name = "Function" /\ call = NoCall) =>
          /\ (err.exc = "TypeError")
                = (~ctor.domain_is_set \/ ~ctor.codomain_is_set)
          /\ (err.exc = "ValueError")
                = (/\ ctor.domain_is_set /\ ctor.codomain_is_set
                   /\ \E x \in ctor.domain : ctor.function[x] \notin ctor.codomain)
          /\ err.exc \in {"none", "TypeError", "ValueError"}
          /\ IF err = NoError
             THEN func = Function(ctor.domain, ctor.codomain, ctor.function)
             ELSE func = NoFunction
    /\ MapsIntoCodomain(func)
    /\ ret.kind = "Function" => MapsIntoCodomain(ret.value)
    /\ call.name = "call" =>
          IF CalledWithinDomain
          THEN /\ err = NoError
               /\ ret.value = func.function[IF ctor.arity = 1 THEN call.args[1]
                                            ELSE call.args]
          ELSE err.exc = "ValueError" /\ ret = NoRet

\* A call with two positional arguments returned the value at their pair.
C17_Witness ==
    /\ call.name = "call"
    /\ ~call.as_tuple
    /\ Len(call.args) = 2
    /\ err = NoError
    /\ ret.value # call.args[1]

\* C18: when the codomain of the inner Function is the domain of the outer
\* one, compose returns the Function from the inner domain to the outer
\* codomain with the value outer(inner(x)) at every x; when it is not,
\* compose raises ValueError.
C18_ComposeIsComposition ==
    (call.name = "compose" /\ call.is_function) =>
       IF func.domain = call.inner_func.codomain
       THEN /\ err = NoError
            /\ ret.kind = "Function"
            /\ ret.value.domain = call.inner_func.domain
            /\ ret.value.codomain = func.codomain
            /\ \A x \in call.inner_func.domain :
                  ret.value.function[x] = func.function[call.inner_func.function[x]]
       ELSE err.exc = "ValueError" /\ ret = NoRet

\* A composition on a domain of two values that differs from its inner
\* Function somewhere.
C18_Witness ==
    /\ call.name = "compose"
    /\ err = NoError
    /\ Cardinality(call.inner_func.domain) = 2
    /\ \E x \in call.inner_func.domain :
          ret.value.function[x] # call.inner_func.function[x]

\* The Function records f and g have the same domain, the same codomain and
\* the same value at every member of the domain.
Extensional(f, g) ==
    /\ f.domain = g.domain
    /\ f.codomain = g.codomain
    /\ \A x \in f.domain : f.function[x] = g.function[x]

\* C19: f == g exactly when domains, codomains and the values on the domain
\* are equal, whatever the mappings are elsewhere; g == f is the same; a
\* Function is equal to itself; equal Functions have equal hashes.
C19_EqualityIsExtensional ==
    (call.name = "eq" /\ call.is_function) =>
       /\ ret.value = Extensional(func, call.other_func)
       /\ ret.reverse = ret.value
       /\ call.other_func = func => ret.value
       /\ ret.value => ret.hash = ret.other_hash

\* Two Functions with different mappings are equal.
C19_Witness ==
    /\ call.name = "eq"
    /\ call.is_function
    /\ ret.value
    /\ call.other_func.function # func.function
    /\ func.domain # {}

\* C20: is_surjective() is true exactly when every member of the codomain is
\* a value, is_injective() exactly when no two members of the domain have
\* the same value, is_bijective() exactly when both are; image() is the set
\* of the values.
C20_Predicates ==
    call.name = "predicates" =>
       /\ ret.image = {func.function[x] : x \in func.domain}
       /\ ret.is_surjective
             = (\A y \in func.codomain : \E x \in func.domain : func.function[x] = y)
       /\ ret.is_injective
             = (\A x \in func.domain, z \in func.domain :
                   func.function[x] = func.function[z] => x = z)
       /\ ret.is_bijective = (ret.is_surjective /\ ret.is_injective)

\* A Function that is injective and not surjective.
C20_Witness ==
    /\ call.name = "predicates"
    /\ ret.is_injective
    /\ ~ret.is_surjective
    /\ func.domain # {}

\* C21: A*B is the set of the pairs (x, y) with x in A and y in B, of
\* |A|*|B| members, empty when B is empty; A*other raises TypeError when other
\* is no Set; A**1 is A, A**2 is A*A, and A**n raises ValueError ("must be at
\* least 1") for every integer n below 1.
C21_SetProducts ==
    /\ (call.name = "mul" /\ call.other_is_set) =>
          /\ err = NoError
          /\ \A x \in 0 .. MaxMember, y \in 0 .. MaxMember :
                (<<x, y>> \in ret.value) = (x \in ctor.set /\ y \in call.other_set)
          /\ \A p \in ret.value : Len(p) = 2
          /\ Cardinality(ret.value)
                = Cardinality(ctor.set) * Cardinality(call.other_set)
          /\ call.other_set = {} => ret.value = {}
    /\ (call.name = "mul" /\ ~call.other_is_set) =>
          err.exc = "TypeError" /\ ret = NoRet
    /\ (call.name = "pow" /\ call.is_int) =>
          /\ call.exponent = 1 => err = NoError /\ ret.value = ctor.set
          /\ call.exponent = 2 =>
                /\ err = NoError
                /\ ret.value = SetMul(ctor.set, TRUE, ctor.set).value
          /\ call.exponent < 1 =>
                /\ err = Raise("ValueError", "must be at least 1")
                /\ ret = NoRet

\* A square of a Set of two members was computed by A**2.
C21_Witness ==
    /\ call.name = "pow"
    /\ call.exponent = 2
    /\ err = NoError
    /\ Cardinality(ctor.set) = 2
    /\ Cardinality(ret.value) = 4

\* C22: Zn(n) for n from 1 on returns a Group of n elements with identity 0,
\* that is Abelian, where the product of a and b is (a + b) mod n and the
\* inverse of a is (n - a) mod n.
C22_ZnIsAdditionModN ==
    (ctor.name = "Zn" /\ ctor.n >= 1) =>
       /\ call = NoCall => err = NoError
       /\ G.exists
       /\ G.e = 0
       /\ Cardinality(G.elements) = ctor.n
       /\ G.abelian
       /\ \A a \in G.elements, b \in G.elements :
             Times(G, a, b) = (a + b) % ctor.n
       /\ (call.name = "invert" /\ call.element \in G.elements) =>
             /\ err = NoError
             /\ ret.value = (ctor.n - call.element) % ctor.n

\* The inverse of 4 in a Zn(n) of at least 6 elements was returned.
C22_Witness ==
    /\ ctor.name = "Zn"
    /\ ctor.n >= 6
    /\ call.name = "invert"
    /\ call.element = 4
    /\ ret.value = ctor.n - 4

RECURSIVE Factorial(_)
Factorial(n) == IF n <= 1 THEN 1 ELSE n * Factorial(n - 1)

\* C23: Sn(n) is refused with ValueError for n above 7; every Group it
\* returns has the trivial permutation as identity and n! elements, is
\* Abelian exactly when n < 3, and invert(p) is the permutation q with
\* q[p[i]] = i and p[q[i]] = i for every position i.
C23_SnIsSymmetricGroup ==
    ctor.name = "Sn" =>
       IF ctor.n > SnRefused
       THEN err.exc = "ValueError" /\ ~G.exists
       ELSE /\ G.exists
            /\ G.e = [i \in 1 .. ctor.n |-> i - 1]
            /\ Cardinality(G.elements) = Factorial(ctor.n)
            /\ G.abelian = (ctor.n < 3)
            /\ (call.name = "invert" /\ call.element \in G.elements) =>
                  /\ err = NoError
                  /\ \A i \in 1 .. ctor.n :
                        /\ ret.value[call.element[i] + 1] = i - 1
                        /\ call.element[ret.value[i] + 1] = i - 1

\* The inverse of the rotation 120 of Sn(3), the rotation 201, was returned.
C23_Witness ==
    /\ ctor.name = "Sn"
    /\ call.name = "invert"
    /\ call.element = <<1, 2, 0>>
    /\ ret.value = <<2, 0, 1>>

\* C24: Dn(n) for n from 1 on returns a Group of 2n elements with identity
\* "r0", that is Abelian exactly when n < 3, where the inverse of a flip is the
\* flip itself and the inverse of the rotation by k is the rotation by
\* (n - k) mod n.
C24_DnIsDihedralGroup ==
    (ctor.name = "Dn" /\ ctor.n >= 1) =>
       /\ G.exists
       /\ G.e = DnRot(0)
       /\ Cardinality(G.elements) = 2 * ctor.n
       /\ G.abelian = (ctor.n < 3)
       /\ (call.name = "invert" /\ call.element \in G.elements) =>
             /\ err = NoError
             /\ \A k \in 0 .. (ctor.n - 1) :
                   /\ call.element = DnFlip(k) => ret.value = DnFlip(k)
                   /\ call.element = DnRot(k)
                         => ret.value = DnRot((ctor.n - k) % ctor.n)

\* The Groups g and h have the same elements and operations that are equal
\* as Functions.
Structural(g, h) ==
    /\ g.elements = h.elements
    /\ Extensional(g.bin_op, h.bin_op)

\* C25: Groups with equal elements and with operations that are equal
\* Functions are equal, whatever the mappings and the display orders; a Group
\* is equal to itself; nothing that is no Group is equal to a Group; equal
\* Groups have equal hashes.
C25_GroupEqualityIsStructural ==
    call.name = "group_eq" =>
       /\ (call.is_group /\ Structural(G, call.other_group)) => ret.value
       /\ call.same_object => ret.value
       /\ ~call.is_group => ~ret.value
       /\ ret.value => ret.hash = ret.other_hash

\* A Group with a display order is equal to one of another mapping, another
\* iteration order and no display order.
C25_Witness ==
    /\ call.name = "group_eq"
    /\ ret.value
    /\ G.has_display
    /\ ~call.other_group.has_display
    /\ call.other_group.set # G.set
    /\ call.other_group.bin_op.function # G.bin_op.function

\* C27: item in G raises nothing and returns a boolean, true exactly when
\* item is an Element whose raw value is one of the elements of G: false for
\* a raw value, member or not, and for any other object.
C27_ContainsNeverRaises ==
    call.name = "contains" =>
       /\ err = NoError
       /\ ret.kind = "bool"
       /\ ret.value = (call.item.kind = "Element" /\ call.item.value \in G.elements)

\* The first check of the list of C26 that the arguments of the construction
\* fail, "none" when they pass them all
FirstFailure ==
    LET E == ctor.elements
        times(a, b) == func.function[<<a, b>>]
        identities == {e \in E : \A a \in E : times(e, a) = a /\ times(a, e) = a}
    IN IF ~ctor.elements_is_set THEN "elements"
       ELSE IF ~ctor.bin_op_is_function THEN "bin_op"
       ELSE IF \E a \in E, b \in E : <<a, b>> \notin func.domain THEN "domain"
       ELSE IF \E a \in E, b \in E : times(a, b) \notin E THEN "closure"
       ELSE IF identities = {} THEN "no identity"
       ELSE IF /\ ~ctor.skip_checks
               /\ \E a \in E, b \in E, c \in E :
                     times(a, times(b, c)) # times(times(a, b), c)
       THEN "not associative"
       ELSE IF \E a \in E : \A b \in E : times(a, b) \notin identities
       THEN "missing inverses"
       ELSE IF ctor.has_display /\ Range(ctor.display_order) # E
       THEN "display order"
       ELSE "none"

\* C26: Group(...) checks the types of the arguments, that the pairs of
\* elements are in the domain of the operation, closure, the identity,
\* associativity unless skipped, the inverses and the display order, in this
\* order; it raises the error of the first check that fails and then returns
\* no Group, and it returns a Group when none fails.
C26_FirstFailingCheckIsReported ==
    (ctor.name = "Group" /\ call = NoCall) =>
       /\ err.msg = FirstFailure
       /\ G.exists = (err = NoError)
       /\ err.exc = (IF FirstFailure = "none" THEN "none"
                     ELSE IF FirstFailure \in {"elements", "bin_op"} THEN "TypeError"
                     ELSE "ValueError")

\* A loop of generate or subgroups is running, and the call has returned or
\* raised
InLoop == call.name \in {"generate_loop", "subgroups_loop"}
LoopRunning == InLoop /\ call.pc = "loop"
LoopDone == InLoop /\ call.pc = "done"

\* The candidates of a running loop stay inside G: raw values of G for
\* generate, closed subsets of G for subgroups; and the iterations made are
\* no more than the candidates found.
LoopWithinGroup ==
    /\ call.name = "generate_loop" =>
          /\ call.new_set \subseteq G.elements
          /\ call.pc = "loop" => call.old_set \subseteq G.elements
          /\ call.iterations <= Cardinality(call.old_set)
          /\ call.iterations <= Cardinality(G.elements)
    /\ call.name = "subgroups_loop" =>
          /\ \A H \in call.old_set \cup call.new_set :
                H # {} /\ H \subseteq G.elements /\ Closed(G, H)
          /\ call.iterations <= Cardinality(call.old_set)

\* An iteration of a loop makes new_set strictly larger, or makes the next
\* test of the while fail.
LoopGrowsOrExits ==
    (InLoop /\ call'.name = call.name /\ call'.iterations = call.iterations + 1) =>
       \/ call.new_set \subseteq call'.new_set /\ call.new_set # call'.new_set
       \/ call'.old_set = call'.new_set

\* C28: the loops of generate and subgroups end.  Every iteration makes the
\* candidate set strictly larger or is the last one; the candidates stay
\* inside the elements of G, for subgroups inside its closed subsets;
\* generate makes at most |G| iterations, and a call that has started returns
\* or raises.
C28_LoopsTerminate ==
    /\ []LoopWithinGroup
    /\ [][LoopGrowsOrExits]_vars
    /\ (LoopRunning ~> LoopDone)

\* A generate returned after three iterations of its loop.
C28_Witness ==
    /\ call.name = "generate_loop"
    /\ call.pc = "done"
    /\ call.iterations >= 3
    /\ err = NoError

\* C29: every Group that Sn(n) returns, built with skip_checks=True, has an
\* operation that is associative on every ordered triple and that composes
\* permutations: (p * q)[i] = p[q[i]] at every position i.
C29_SnIsAssociative ==
    (ctor.name = "Sn" /\ ctor.n <= SnRefused) =>
       /\ G.exists
       /\ Associative(G)
       /\ \A p \in G.elements, q \in G.elements :
             /\ Times(G, p, q) \in G.elements
             /\ \A i \in 1 .. ctor.n : Times(G, p, q)[i] = p[q[i] + 1]

\* Sn(3) returned a Group that is not Abelian.
C29_Witness ==
    /\ ctor.name = "Sn"
    /\ ctor.n = 3
    /\ G.exists
    /\ ~G.abelian
    /\ call = NoCall

\* C30: in a Group built with the associativity check on, the Element y that
\* invert(x) returns is an inverse of x on both sides, no other element z has
\* x * z = e, and invert(y) returns x.
C30_InversesTwoSidedAndUnique ==
    (BuiltWithChecks /\ call.name = "invert" /\ call.element \in G.elements) =>
       /\ err = NoError
       /\ Times(G, call.element, ret.value) = G.e
       /\ Times(G, ret.value, call.element) = G.e
       /\ \A z \in G.elements : Times(G, call.element, z) = G.e => z = ret.value
       /\ GroupInvert(G, ret.value) = [err |-> NoError, value |-> call.element]

====
